---------------------------- MODULE Spec2Model ----------------------------
(***************************************************************************)
(* A model of the macOS Contacts MCP server (src/src/index.js).            *)
(*                                                                         *)
(* Spec         the ContactsServer instance handling tool calls: the       *)
(*              CallTool handler, the permission probes, the cached        *)
(*              permissionsChecked flag and the script executions.  Two    *)
(*              calls may be in progress and interleave at their await     *)
(*              points; while the interpreter process started by execSync  *)
(*              is in flight, the one thread of the server is blocked.     *)
(* SpecParse    parseContactsFromDelimitedData on bounded raw blobs.       *)
(* SpecMatch    matchesQuery and matchesField on bounded records.          *)
(* SpecBirthday isUpcomingBirthday on bounded dates.                       *)
(* SpecReply    what getAllContacts, getContactNames, searchContacts and   *)
(*              getContactByName make of a bounded address book.           *)
(* SpecFetch    getContactsData and getAllContacts on what the fetch       *)
(*              script emits for a bounded address book.                   *)
(* SpecExec     executeAppleScript's command line, timeout and outcome on  *)
(*              bounded script texts.                                      *)
(* SpecBuild    the scripts searchContacts, getContactByName and           *)
(*              testContactProcessing build around a user-supplied value.  *)
(*                                                                         *)
(* Text is a sequence of tokens: one-character strings where the code      *)
(* looks at characters, message fragments where it only concatenates.     *)
(***************************************************************************)
EXTENDS Integers, Sequences, FiniteSets, TLC

VARIABLES
    permissionsChecked, \* this.permissionsChecked
    pc,                 \* per call: the await the call is suspended at
    tool,               \* per call: request.params.name
    args,               \* per call: request.params.arguments
    pending,            \* per call: outcome of the script execution awaited
    result,             \* per call: what the handler's promise settled to
    everPassed,         \* history: some checkPermissions completed both probes
    gateOpen,           \* history, per call: everPassed when the call began
    probesOk,           \* history, per call: probes that succeeded in the call
    running,            \* the calls whose interpreter process is in flight
    srcLines, sep, data, contacts,                    \* SpecParse
    contact, query, field, value, exactMatch, matched, \* SpecMatch
    birthday, days, now, upcoming,                    \* SpecBirthday
    book, request, listSep, fetched, reply,           \* SpecReply, SpecFetch
    payload, duration, exitCode, execResult,          \* SpecExec
    userValue, built                                  \* SpecBuild

serverVars == <<permissionsChecked, pc, tool, args, pending, result,
                everPassed, gateOpen, probesOk, running>>
parseVars == <<srcLines, sep, data, contacts>>
matchVars == <<contact, query, field, value, exactMatch, matched>>
birthdayVars == <<birthday, days, now, upcoming>>
replyVars == <<book, request, listSep, fetched, reply>>
execVars == <<payload, duration, exitCode, execResult>>
buildVars == <<userValue, built>>
vars == <<serverVars, parseVars, matchVars, birthdayVars, replyVars,
          execVars, buildVars>>

(***************************************************************************)
(* JavaScript values shared by the parts of the model.                     *)
(***************************************************************************)
\* The JavaScript value undefined (an argument or a field that is absent).
Undefined == <<"undefined">>

\* JavaScript truthiness of a string-or-undefined value.
Truthy(v) == v # Undefined /\ v # <<>>

RECURSIVE Flatten(_)
Flatten(ss) == IF ss = <<>> THEN <<>> ELSE Head(ss) \o Flatten(Tail(ss))

Range(s) == {s[i] : i \in DOMAIN s}

(***************************************************************************)
(* The server: tool calls, probes and script executions.                   *)
(***************************************************************************)
\* The calls that may be in progress at once.
Calls == {"c1", "c2"}

Tools == {"search_contacts", "get_contact_by_name", "get_all_contacts",
          "check_permissions", "test_contact_processing",
          "get_contact_count", "get_contact_names", "no_such_tool"}

\* request.params.arguments: absent, or an object with some options.
NoArgs == [given |-> FALSE, query |-> Undefined, name |-> Undefined,
           exact_match |-> FALSE, unlimited |-> FALSE]
EmptyArgs == [NoArgs EXCEPT !.given = TRUE]

ArgsFor(t) ==
    CASE t = "search_contacts" ->
           {NoArgs, EmptyArgs, [EmptyArgs EXCEPT !.query = <<>>],
            [EmptyArgs EXCEPT !.query = <<"q">>]}
      [] t = "get_contact_by_name" ->
           {NoArgs, EmptyArgs}
           \cup {[EmptyArgs EXCEPT !.name = <<"n">>, !.exact_match = e] :
                   e \in BOOLEAN}
      [] t = "get_all_contacts" ->
           {NoArgs} \cup {[EmptyArgs EXCEPT !.unlimited = u] : u \in BOOLEAN}
      [] OTHER -> {NoArgs, EmptyArgs}

\* What a failed interpreter process leaves on the error object:
\* error.stdout || error.stderr || error.message.
RawOutputs == {"raw stdout", "raw stderr", "raw exec message"}

\* error.status of a failed execSync: the exit code, or null after a timeout.
ExitStatus == {"1", "null"}

\* Trimmed stdout of a successful run: empty or not.
Stdout(script) == {<<>>, <<"stdout of ">> \o <<script>>}

ExecFailedPrefix == "Failed to execute AppleScript (exit code: "

\* A mutant of executeAppleScript: the thrown message carries the details.
executeAppleScriptLeaky(script) ==
    {[ok |-> TRUE, value |-> o] : o \in Stdout(script)}
    \cup {[ok |-> FALSE, value |-> <<ExecFailedPrefix, s, "): ", d>>] :
            s \in ExitStatus, d \in RawOutputs}

\* executeAppleScript: the outcomes of one run.  Success returns the trimmed
\* stdout; a failure logs errorDetails and throws the fixed message.
executeAppleScript(script) ==
    {[ok |-> TRUE, value |-> o] : o \in Stdout(script)}
    \cup {[ok |-> FALSE, value |-> <<ExecFailedPrefix, s, ")">>] :
            s \in ExitStatus, d \in RawOutputs}

NoPending == [ok |-> TRUE, value |-> <<>>]
NoResult == [none |-> TRUE]

\* The result envelope {content: [{type: 'text', text}]}.
Envelope(text) == [content |-> <<[type |-> "text", text |-> text]>>]

\* A mutant of the handler's catch: the error leaves the handler.
HandlerRethrow(message) == [thrown |-> message]

\* The catch of the CallTool handler.
HandlerCatch(message) ==
    Envelope(<<"Error accessing contacts: ">> \o message
             \o <<"Try using the 'check_permissions' tool first">>)

TypeErrorMessage == <<"Cannot read properties of undefined">>

\* A mutant of the probes' try/catch: the failure is logged and swallowed.
ProbePassedAlways(outcome) == TRUE

\* checkPermissions' try { await executeAppleScript } catch { throw }.
ProbePassed(outcome) == outcome.ok

\* The tools whose method awaits checkPermissions() on every call.
AlwaysChecks == {"search_contacts", "get_contact_by_name",
                 "test_contact_processing", "check_permissions"}

\* Reading an option of absent arguments raises a TypeError instead of
\* yielding a script.
NoScript == "TypeError"

\* The script a tool runs for its data, once past any permission check.
DataScript(t, a) ==
    CASE t = "search_contacts" ->
           IF ~a.given THEN NoScript
           ELSE IF ~Truthy(a.query) THEN "name of people"
           ELSE "whose name contains"
      [] t = "get_contact_by_name" ->
           IF ~a.given \/ a.name = Undefined THEN NoScript
           ELSE IF a.exact_match THEN "whose name =" ELSE "whose name contains"
      [] t = "test_contact_processing" ->
           IF ~a.given THEN NoScript ELSE "processing test"
      [] t = "get_all_contacts" ->
           IF a.unlimited THEN "fetch unlimited" ELSE "fetch capped"
      [] t = "check_permissions" -> "count of people"
      [] t = "get_contact_count" -> "count of people"
      [] t = "get_contact_names" -> "name of person 1..3"

\* What a tool answers when its data script threw `message`.
DataFailed(t, message) ==
    CASE t = "check_permissions" ->
           Envelope(<<"Permissions check failed: ">> \o message
                    \o <<"Troubleshooting steps">>)
      [] t = "get_contact_count" ->
           Envelope(<<"Failed to get contact count: ">> \o message)
      [] t = "get_contact_names" ->
           Envelope(<<"Failed to get contact names: ">> \o message)
      [] t = "test_contact_processing" ->
           Envelope(<<"Contact processing test failed: ">> \o message)
      [] OTHER -> HandlerCatch(message)

\* What a tool answers when its data script returned `out`.
DataSucceeded(t, a, out) ==
    CASE t = "check_permissions" ->
           Envelope(<<"Permissions check passed! Contact count: ">> \o out)
      [] t = "get_contact_count" ->
           Envelope(<<"Total contacts in address book: ">> \o out)
      [] t = "get_contact_names" ->
           Envelope(<<"First contact names: ">> \o out)
      [] t = "test_contact_processing" ->
           Envelope(<<"Contact Processing Test Results: ">> \o out)
      [] t = "search_contacts" ->
           IF ~Truthy(a.query) THEN Envelope(<<"First contacts: ">> \o out)
           ELSE IF out = <<>>
           THEN Envelope(<<"No contacts found matching ">> \o a.query)
           ELSE Envelope(<<"Found contacts matching ">> \o a.query \o out)
      [] t = "get_contact_by_name" ->
           IF out = <<>>
           THEN Envelope(<<"No contacts found with name ">> \o a.name)
           ELSE Envelope(<<"Found contacts with name ">> \o a.name \o out)
      [] t = "get_all_contacts" ->
           Envelope(<<"Retrieved contacts: ">> \o out)

\* A mutant of CheckFailed: the failure does not say which probe failed.
CheckFailedUnnamed(t, message) ==
    HandlerCatch(<<"Permission check failed">>)

\* What a failed permission check turns into at the operation boundary.
CheckFailed(t, message) ==
    IF t = "check_permissions"
    THEN Envelope(<<"Permissions check failed: ">> \o message
                  \o <<"Troubleshooting steps">>)
    ELSE HandlerCatch(message)

Settle(c, r) ==
    /\ pc' = [pc EXCEPT ![c] = "done"]
    /\ result' = [result EXCEPT ![c] = r]
    /\ pending' = [pending EXCEPT ![c] = NoPending]
    /\ running' = running

\* A mutant of EventLoopFree: handlers run while a process is in flight, as
\* they would with an asynchronous exec.
EventLoopFreeAlways == TRUE

\* execSync blocks the server's one thread until the process it started has
\* exited or was killed: no handler code runs in between.
EventLoopFree == running = {}

\* execSync starts the interpreter on `script`; the call will be suspended at
\* the await named `at` once the process is over.
Execute(c, script, at) ==
    /\ pc' = [pc EXCEPT ![c] = at]
    /\ pending' = [pending EXCEPT ![c] = NoPending]
    /\ running' = running \cup {c}
    /\ result' = result

\* The script of the process a call started last.
ScriptAt(c) ==
    CASE pc[c] = "sysEvents" -> "System Events probe"
      [] pc[c] = "contacts" -> "Contacts probe"
      [] OTHER -> DataScript(tool[c], args[c])

\* The interpreter process exits or is killed at the timeout: execSync
\* returns, executeAppleScript returns or throws, and the call is suspended
\* at its await.
ProcessExit(c) ==
    /\ c \in running
    /\ \E outcome \in executeAppleScript(ScriptAt(c)) :
         pending' = [pending EXCEPT ![c] = outcome]
    /\ running' = running \ {c}
    /\ UNCHANGED <<permissionsChecked, pc, tool, args, result, everPassed,
                   gateOpen, probesOk>>
    /\ UNCHANGED <<parseVars, matchVars, birthdayVars, replyVars,
                   execVars,
                   buildVars>>

\* Build and run the tool's data script, or fail with the TypeError.
RunData(c, t, a) ==
    IF DataScript(t, a) = NoScript
    THEN Settle(c, HandlerCatch(TypeErrorMessage))
    ELSE Execute(c, DataScript(t, a), "data")

\* The CallTool handler is entered: the switch, and the first synchronous
\* stretch of the tool's method up to its first await.
CallTool(c) ==
    /\ pc[c] = "idle" /\ EventLoopFree
    /\ \E t \in Tools : \E a \in ArgsFor(t) :
         /\ tool' = [tool EXCEPT ![c] = t]
         /\ args' = [args EXCEPT ![c] = a]
         /\ gateOpen' = [gateOpen EXCEPT ![c] = everPassed]
         /\ probesOk' = [probesOk EXCEPT ![c] = 0]
         /\ CASE t = "no_such_tool" ->
                  Settle(c, HandlerCatch(<<"Unknown tool: ", t>>))
              [] t \in AlwaysChecks ->
                  Execute(c, "System Events probe", "sysEvents")
              [] t = "get_all_contacts" ->
                  IF ~a.given THEN Settle(c, HandlerCatch(TypeErrorMessage))
                  ELSE IF ~permissionsChecked
                  THEN Execute(c, "System Events probe", "sysEvents")
                  ELSE RunData(c, t, a)
              [] t = "get_contact_count" -> RunData(c, t, a)
              [] t = "get_contact_names" ->
                  IF ~a.given THEN Settle(c, HandlerCatch(TypeErrorMessage))
                  ELSE RunData(c, t, a)
    /\ UNCHANGED <<permissionsChecked, everPassed>>
    /\ UNCHANGED <<parseVars, matchVars, birthdayVars, replyVars,
                   execVars,
                   buildVars>>

\* A mutant of SetsFlag: every caller of checkPermissions sets the flag.
SetsFlagAlways(t) == TRUE

\* The callers of checkPermissions that go on to `this.permissionsChecked =
\* true`: getContactsData and getContactsDataUnlimited, reached from
\* getAllContacts only.
SetsFlag(t) == t = "get_all_contacts"

\* checkPermissions resumes after the System Events probe.
CheckSystemEvents(c) ==
    /\ pc[c] = "sysEvents" /\ c \notin running /\ EventLoopFree
    /\ IF ProbePassed(pending[c])
       THEN /\ Execute(c, "Contacts probe", "contacts")
            /\ probesOk' = [probesOk EXCEPT
                              ![c] = IF pending[c].ok THEN @ + 1 ELSE @]
       ELSE /\ Settle(c, CheckFailed(tool[c], <<"System Events not accessible">>))
            /\ UNCHANGED probesOk
    /\ UNCHANGED <<permissionsChecked, tool, args, everPassed, gateOpen>>
    /\ UNCHANGED <<parseVars, matchVars, birthdayVars, replyVars,
                   execVars,
                   buildVars>>

\* checkPermissions resumes after the Contacts probe; on success the caller
\* goes on: getContactsData sets the flag, every tool runs its data script.
CheckContacts(c) ==
    /\ pc[c] = "contacts" /\ c \notin running /\ EventLoopFree
    /\ IF ProbePassed(pending[c])
       THEN /\ permissionsChecked' =
                 IF SetsFlag(tool[c]) THEN TRUE ELSE permissionsChecked
            /\ probesOk' = [probesOk EXCEPT
                              ![c] = IF pending[c].ok THEN @ + 1 ELSE @]
            /\ everPassed' = (everPassed \/ (pending[c].ok /\ probesOk[c] = 1))
            /\ RunData(c, tool[c], args[c])
       ELSE /\ Settle(c, CheckFailed(tool[c],
                 <<"Contacts app not accessible - permission not granted">>))
            /\ UNCHANGED <<permissionsChecked, probesOk, everPassed>>
    /\ UNCHANGED <<tool, args, gateOpen>>
    /\ UNCHANGED <<parseVars, matchVars, birthdayVars, replyVars,
                   execVars,
                   buildVars>>

\* The tool's method resumes after its data script.
DataDone(c) ==
    /\ pc[c] = "data" /\ c \notin running /\ EventLoopFree
    /\ IF pending[c].ok
       THEN Settle(c, DataSucceeded(tool[c], args[c], pending[c].value))
       ELSE Settle(c, DataFailed(tool[c], pending[c].value))
    /\ UNCHANGED <<permissionsChecked, tool, args, everPassed, gateOpen,
                   probesOk>>
    /\ UNCHANGED <<parseVars, matchVars, birthdayVars, replyVars,
                   execVars,
                   buildVars>>

\* The response is sent and the call is over.
Respond(c) ==
    /\ pc[c] = "done" /\ EventLoopFree
    /\ pc' = [pc EXCEPT ![c] = "idle"]
    /\ result' = [result EXCEPT ![c] = NoResult]
    /\ tool' = [tool EXCEPT ![c] = "none"]
    /\ args' = [args EXCEPT ![c] = NoArgs]
    /\ gateOpen' = [gateOpen EXCEPT ![c] = FALSE]
    /\ probesOk' = [probesOk EXCEPT ![c] = 0]
    /\ UNCHANGED <<permissionsChecked, pending, everPassed, running>>
    /\ UNCHANGED <<parseVars, matchVars, birthdayVars, replyVars,
                   execVars,
                   buildVars>>

\* A result not computed yet, and a computed one.
NotYet == [done |-> FALSE, value |-> <<>>]
Done(v) == [done |-> TRUE, value |-> v]

ParseIdle == srcLines = <<>> /\ sep = <<>> /\ data = <<>> /\ contacts = NotYet
MatchIdle ==
    /\ contact = <<>> /\ query = <<>> /\ field = "name" /\ value = <<>>
    /\ exactMatch = FALSE /\ matched = NotYet
BirthdayIdle ==
    /\ birthday = [kind |-> "undefined"] /\ days = 0
    /\ now = [month |-> 1, day |-> 1, tick |-> 0, leap |-> FALSE,
              leapNext |-> FALSE]
    /\ upcoming = NotYet

\* A limit argument: absent, or a number.
NoLimit == [given |-> FALSE, n |-> 0]
Limit(n) == [given |-> TRUE, n |-> n]

\* The arguments of a call, all of them absent.
NoRequest ==
    [tool |-> "none", query |-> Undefined, name |-> Undefined,
     exact_match |-> FALSE, unlimited |-> FALSE, limit |-> NoLimit,
     option |-> "none", optionValue |-> Undefined]

ReplyIdle ==
    /\ book = <<>> /\ request = NoRequest /\ listSep = <<>>
    /\ fetched = NotYet /\ reply = NotYet
ExecIdle ==
    payload = <<>> /\ duration = 0 /\ exitCode = 0 /\ execResult = NotYet
BuildIdle == userValue = <<>> /\ built = NotYet

ServerIdle ==
    /\ permissionsChecked = FALSE
    /\ pc = [c \in Calls |-> "idle"]
    /\ tool = [c \in Calls |-> "none"]
    /\ args = [c \in Calls |-> NoArgs]
    /\ pending = [c \in Calls |-> NoPending]
    /\ result = [c \in Calls |-> NoResult]
    /\ everPassed = FALSE
    /\ gateOpen = [c \in Calls |-> FALSE]
    /\ probesOk = [c \in Calls |-> 0]
    /\ running = {}

\* The state after new ContactsServer().
Init ==
    /\ ServerIdle /\ ParseIdle /\ MatchIdle /\ BirthdayIdle
    /\ ReplyIdle /\ ExecIdle /\ BuildIdle

Next ==
    \/ \E c \in Calls : CallTool(c)
    \/ \E c \in Calls : ProcessExit(c)
    \/ \E c \in Calls : CheckSystemEvents(c)
    \/ \E c \in Calls : CheckContacts(c)
    \/ \E c \in Calls : DataDone(c)
    \/ \E c \in Calls : Respond(c)

Spec == Init /\ [][Next]_vars

(***************************************************************************)
(* Claims about the server, checked under Spec.                            *)
(***************************************************************************)
\* The operations that go through checkPermissions before reading data.
GatedTools == {"search_contacts", "get_contact_by_name",
               "test_contact_processing", "get_all_contacts"}
UngatedTools == {"get_contact_count", "get_contact_names"}

\* A call suspended at the await of a probe has just executed that probe.
AtProbe(c) == pc[c] \in {"sysEvents", "contacts"}

TextOf(r) == r.content[1].text

\* C1 (as claimed): once a permission check has succeeded, a gated operation
\* that begins afterwards executes neither probe script.
C1_NoProbeAfterSuccess ==
    \A c \in Calls : (gateOpen[c] /\ tool[c] \in GatedTools) => ~AtProbe(c)

\* C2 (as claimed): every operation that reads contact data, get_contact_count
\* and get_contact_names included, executes its data script only after both
\* probes succeeded in the same call or in an earlier one.
C2_DataOnlyAfterGate ==
    \A c \in Calls :
        (pc[c] = "data" /\ tool[c] \in GatedTools \cup UngatedTools)
            => (probesOk[c] = 2 \/ everPassed)

\* C2 (amended): search_contacts, get_contact_by_name, test_contact_processing
\* and get_all_contacts execute their data script only after both probes
\* succeeded, in the same call or, for get_all_contacts, in a check completed
\* before the call began; get_contact_count and get_contact_names execute
\* theirs without running any probe.
C2_GatedDataOnlyAfterGate ==
    \A c \in Calls :
        /\ (pc[c] = "data" /\ tool[c] \in GatedTools)
              => \/ probesOk[c] = 2
                 \/ tool[c] = "get_all_contacts" /\ gateOpen[c]
        /\ tool[c] \in UngatedTools => (~AtProbe(c) /\ probesOk[c] = 0)

\* A get_all_contacts call runs its fetch script on the cached check alone.
C2_Witness ==
    \E c \in Calls :
        /\ pc[c] = "data" /\ tool[c] = "get_all_contacts"
        /\ probesOk[c] = 0 /\ gateOpen[c] /\ permissionsChecked

IsEnvelope(r) ==
    /\ DOMAIN r = {"content"}
    /\ Len(r.content) = 1
    /\ DOMAIN r.content[1] = {"type", "text"}
    /\ r.content[1].type = "text"
    /\ \A i \in DOMAIN TextOf(r) : TextOf(r)[i] \in STRING

\* C3: every tool call, whatever the tool name, the arguments and the outcome
\* of each script execution, settles to an envelope
\* {content: [{type: 'text', text}]}; nothing is thrown past the handler.
C3_AlwaysEnvelope ==
    \A c \in Calls :
        /\ pc[c] = "done" => IsEnvelope(result[c])
        /\ pc[c] # "done" => result[c] = NoResult

\* get_contact_count whose script failed answers with its failure text.
C3_Witness ==
    \E c \in Calls :
        /\ pc[c] = "done" /\ tool[c] = "get_contact_count"
        /\ IsEnvelope(result[c])
        /\ TextOf(result[c])[1] = "Failed to get contact count: "
        /\ ExecFailedPrefix \in Range(TextOf(result[c]))

\* C4: the error of a failed execution carries the fixed text and the exit
\* code only, and no envelope returned to the caller contains any stdout,
\* stderr or interpreter message of a failed process.
C4_NoRawOutputLeaks ==
    \A c \in Calls :
        /\ ~pending[c].ok =>
              pending[c].value \in
                  {<<ExecFailedPrefix, s, ")">> : s \in ExitStatus}
        /\ pc[c] = "done" =>
              /\ "content" \in DOMAIN result[c]
              /\ Range(TextOf(result[c])) \cap RawOutputs = {}

\* A call answered after one of its script executions failed by timeout.
C4_Witness ==
    \E c \in Calls :
        /\ pc[c] = "done"
        /\ "content" \in DOMAIN result[c]
        /\ \E i \in 1..(Len(TextOf(result[c])) - 1) :
              /\ TextOf(result[c])[i] = ExecFailedPrefix
              /\ TextOf(result[c])[i + 1] = "null"

\* The check's two error messages.
C19_BridgeError == "System Events not accessible"
C19_SourceError == "Contacts app not accessible - permission not granted"

\* One step of the call c, as far as checkPermissions goes.
C19_Step(c) ==
    /\ (pc[c] = "idle" /\ AtProbe(c)') => pc'[c] = "sysEvents"
    /\ (pc[c] # "contacts" /\ pc'[c] = "contacts") =>
          (pc[c] = "sysEvents" /\ pending[c].ok)
    /\ (pc[c] = "sysEvents" /\ pc'[c] # "sysEvents") =>
          IF pending[c].ok
          THEN pc'[c] = "contacts" /\ c \in running'
          ELSE /\ pc'[c] = "done"
               /\ C19_BridgeError \in Range(TextOf(result'[c]))
               /\ C19_SourceError \notin Range(TextOf(result'[c]))
    /\ (pc[c] = "contacts" /\ pc'[c] # "contacts") =>
          IF pending[c].ok
          THEN /\ probesOk'[c] = 2
               /\ pc'[c] = "done" =>
                    /\ C19_BridgeError \notin Range(TextOf(result'[c]))
                    /\ C19_SourceError \notin Range(TextOf(result'[c]))
          ELSE /\ pc'[c] = "done" /\ probesOk'[c] = 1
               /\ C19_SourceError \in Range(TextOf(result'[c]))

\* C19: checkPermissions runs the System Events probe first and the
\* Contacts probe second; when the first fails it throws 'System Events
\* not accessible' and the second is never run; when the second fails
\* after the first succeeded it throws 'Contacts app not accessible -
\* permission not granted'; it returns normally only when both succeeded.
C19_ProbeOrder == [][\A c \in Calls : C19_Step(c)]_vars

\* A call has ended on the failure of the Contacts probe, the System
\* Events probe having succeeded.
C19_Witness ==
    \E c \in Calls :
        /\ pc[c] = "done" /\ probesOk[c] = 1
        /\ C19_SourceError \in Range(TextOf(result[c]))

\* C20: under any interleaving of the calls, at most one interpreter
\* process is in flight: a script execution started by a call is over
\* before any other one, of the same or of another call, starts.
C20_OneProcessInFlight == Cardinality(running) <= 1

\* A call's process is in flight while the other call is suspended at one
\* of its awaits.
C20_Witness ==
    \E c, d \in Calls :
        /\ c # d /\ running = {c}
        /\ pc[d] \in {"sysEvents", "contacts", "data"}

\* The step in which the getContactsData of call c, back from a passed
\* check, assigns this.permissionsChecked = true.
C21_Writes(c) ==
    /\ pc[c] = "contacts" /\ pc'[c] # "contacts"
    /\ pending[c].ok /\ tool[c] = "get_all_contacts"

\* C21: under any interleaving of the calls the permission-cache flag is
\* written at most once: whenever it is assigned it was still false, also
\* when two get_all_contacts calls overlap at their awaits before the
\* first check has completed.
C21_FlagWrittenOnce ==
    [][\A c \in Calls : C21_Writes(c) => ~permissionsChecked]_vars

\* C24: permissionsChecked is true only if an earlier checkPermissions of
\* this server completed both probes successfully; once true it never
\* becomes false; and only a call that goes through getContactsData or
\* getContactsDataUnlimited changes it: the other tools leave it as it is
\* on success and on failure.
C24_FlagOnlyByFetch ==
    /\ [](permissionsChecked => everPassed)
    /\ [][/\ permissionsChecked => permissionsChecked'
          /\ permissionsChecked' # permissionsChecked =>
               \E c \in Calls :
                   pc'[c] # pc[c] /\ tool[c] = "get_all_contacts"]_vars

\* A tool other than get_all_contacts has passed both probes and the flag
\* is still false.
C24_Witness ==
    \E c \in Calls :
        /\ tool[c] \in AlwaysChecks /\ probesOk[c] = 2
        /\ ~permissionsChecked

(***************************************************************************)
(* RecordExtractor: parseContactsFromDelimitedData.                        *)
(***************************************************************************)
TAB == "\t"
LF == "\n"
CR == "\r"
SEMI == ";"
SPACE == " "

\* The characters String.prototype.trim removes.
Whitespace == {TAB, LF, CR, SPACE}

\* s.split(ch): the pieces between the occurrences of ch, at least one.
Split(s, ch) ==
    LET at == {i \in DOMAIN s : s[i] = ch}
        \* where the k-th piece ends: at the k-th ch, or at the end of s
        Cut(k) == IF k = 0 THEN 0
                  ELSE IF k > Cardinality(at) THEN Len(s) + 1
                  ELSE CHOOSE i \in at : Cardinality({j \in at : j < i}) = k - 1
    IN  [k \in 1..(Cardinality(at) + 1) |->
           SubSeq(s, Cut(k - 1) + 1, Cut(k) - 1)]

\* s.trim()
RECURSIVE Trim(_)
Trim(s) ==
    IF s = <<>> THEN s
    ELSE IF Head(s) \in Whitespace THEN Trim(Tail(s))
    ELSE IF s[Len(s)] \in Whitespace THEN Trim(SubSeq(s, 1, Len(s) - 1))
    ELSE s

\* The filter callbacks x => x.trim(): keep what is not blank.
TrimTruthy(s) == Truthy(Trim(s))

\* fields[i] || ''
OrEmpty(v) == IF Truthy(v) THEN v ELSE <<>>

\* The fewest tab fields a line must have to become a record.
MinFields == 8

\* A mutant of SplitList: the blank entries are kept.
SplitListUnfiltered(fieldText) ==
    IF Truthy(fieldText) THEN Split(fieldText, SEMI) ELSE <<>>

\* fields[6] ? fields[6].split(';').filter(email => email.trim()) : []
SplitList(fieldText) ==
    IF Truthy(fieldText)
    THEN SelectSeq(Split(fieldText, SEMI), TrimTruthy)
    ELSE <<>>

\* A mutant of ParseLine: only lines of exactly eight fields are taken.
ParseLineExact(line) ==
    LET fields == Split(line, TAB)
    IN  IF Len(fields) = MinFields
        THEN <<[name |-> OrEmpty(fields[1]),
                firstName |-> OrEmpty(fields[2]),
                lastName |-> OrEmpty(fields[3]),
                organization |-> OrEmpty(fields[4]),
                note |-> OrEmpty(fields[5]),
                birthday |-> OrEmpty(fields[6]),
                emails |-> SplitList(fields[7]),
                phones |-> SplitList(fields[8])]>>
        ELSE <<>>

\* The body of the loop over the lines: the records (one or none) a line adds.
ParseLine(line) ==
    LET fields == Split(line, TAB)
    IN  IF Len(fields) >= MinFields
        THEN <<[name |-> OrEmpty(fields[1]),
                firstName |-> OrEmpty(fields[2]),
                lastName |-> OrEmpty(fields[3]),
                organization |-> OrEmpty(fields[4]),
                note |-> OrEmpty(fields[5]),
                birthday |-> OrEmpty(fields[6]),
                emails |-> SplitList(fields[7]),
                phones |-> SplitList(fields[8])]>>
        ELSE <<>>

parseContactsFromDelimitedData(text) ==
    LET lines == SelectSeq(Split(text, LF), TrimTruthy)
    IN  Flatten([i \in DOMAIN lines |-> ParseLine(lines[i])])

(***************************************************************************)
(* The raw blobs SpecParse draws.  A line is given by its fields and a     *)
(* field by its ';'-joined entries, so that what the parser should recover *)
(* is known without parsing.                                               *)
(***************************************************************************)
RECURSIVE Join(_, _)
Join(ss, d) ==
    IF ss = <<>> THEN <<>>
    ELSE IF Len(ss) = 1 THEN ss[1]
    ELSE ss[1] \o d \o Join(Tail(ss), d)

FieldText(f) == Join(f, <<SEMI>>)
LineText(l) == Join([i \in DOMAIN l |-> FieldText(l[i])], <<TAB>>)
BlobText(ls, d) == Join([i \in DOMAIN ls |-> LineText(ls[i])], d)

\* One-entry fields and the empty field.
F(ch) == <<<<ch>>>>
NoField == <<>>

\* Lines picked for the cases of the parser: complete, sparse, with blank
\* entries, with a ninth field, blank, short, and with a carriage return
\* inside.
CuratedLines ==
    { <<F("a"), F("f"), F("l"), F("o"), F("n"), F("d"),
        <<<<"e">>, <<"g">>>>, <<<<"1">>, <<"2">>>>>>,
      <<F("a"), NoField, NoField, NoField, NoField, NoField, NoField, NoField>>,
      <<<<<<"a">>, <<"b">>>>, NoField, F("l"), NoField, F("n"), NoField,
        <<<<"e">>, <<>>, <<SPACE>>, <<"g">>>>, <<<<SPACE>>, <<"1">>>>>>,
      <<F("a"), F("f"), F("l"), F("o"), F("n"), F("d"), F("e"), F("1"),
        F("x")>>,
      <<NoField, NoField, NoField, NoField, NoField, NoField, NoField,
        NoField>>,
      <<F("B"), F("L")>>,
      <<F("a"), F("f"), F("l"), F("o"), F("n"), F("d"), F("e")>>,
      <<>>,
      <<F(SPACE)>>,
      <<F("a"), NoField, NoField, NoField, NoField, NoField, F("e"),
        <<<<"1", CR>>>>>>,
      <<NoField, F("f"), F("l"), NoField, NoField, NoField, NoField, F("1")>>,
      <<<<<<SPACE, "a", SPACE>>>>, NoField, NoField, F("o"), NoField, F("d"),
        NoField, NoField>> }

ListChoices ==
    { <<>>, <<<<"e">>>>, <<<<"e">>, <<"g">>>>,
      <<<<"e">>, <<>>, <<SPACE>>, <<"g">>>> }

\* Eight-field lines with every combination of empty and non-empty fields
\* among name, organization, birthday, emails and phones.
GeneratedLines ==
    { <<n, F("f"), F("l"), o, F("n"), d, e, p>> :
        n \in {NoField, F("a")}, o \in {NoField, F("o")},
        d \in {NoField, F("d")}, e \in ListChoices, p \in ListChoices }

\* The record delimiters: newline, carriage return (the fetch scripts'
\* `return`), and CR+LF.
Separators == {<<LF>>, <<CR>>, <<CR, LF>>}

\* The most lines in a blob.
MaxLines == 3

SeqsUpTo(S, n) == UNION {[1..k -> S] : k \in 0..n}

InitParse ==
    /\ \/ srcLines \in SeqsUpTo(CuratedLines, MaxLines)
       \/ srcLines \in {<<l>> : l \in GeneratedLines}
    /\ sep \in Separators
    /\ data = BlobText(srcLines, sep)
    /\ contacts = NotYet
    /\ ServerIdle /\ MatchIdle /\ BirthdayIdle /\ ReplyIdle
    /\ ExecIdle /\ BuildIdle

\* this.parseContactsFromDelimitedData(data)
Parse ==
    /\ ~contacts.done
    /\ contacts' = Done(parseContactsFromDelimitedData(data))
    /\ UNCHANGED <<srcLines, sep, data>>
    /\ UNCHANGED <<serverVars, matchVars, birthdayVars, replyVars,
                   execVars,
                   buildVars>>

NextParse == Parse

SpecParse == InitParse /\ [][NextParse]_vars

(***************************************************************************)
(* Claims about the parser, checked under SpecParse.                       *)
(***************************************************************************)
NonBlankText(s) == \E i \in DOMAIN s : s[i] \notin Whitespace

\* A line that is to become a record: not blank, eight tab fields or more.
Qualifies(l) == Len(l) >= 8 /\ NonBlankText(LineText(l))

\* The record a qualifying line stands for: fields 0-5 as they are, the
\* non-blank entries of fields 6 and 7.
RecordOf(l) ==
    [name |-> FieldText(l[1]), firstName |-> FieldText(l[2]),
     lastName |-> FieldText(l[3]), organization |-> FieldText(l[4]),
     note |-> FieldText(l[5]), birthday |-> FieldText(l[6]),
     emails |-> SelectSeq(l[7], NonBlankText),
     phones |-> SelectSeq(l[8], NonBlankText)]

QualifyingLines == SelectSeq(srcLines, Qualifies)

PlainLine(l) == CR \notin Range(LineText(l)) /\ LF \notin Range(LineText(l))

\* C6 (as claimed): records joined by a carriage return, by a newline or by
\* CR+LF are each parsed as a separate record.
C6_SplitsOnAnyLineBreak ==
    (contacts.done /\ \A i \in DOMAIN srcLines :
                         Qualifies(srcLines[i]) /\ PlainLine(srcLines[i]))
        => contacts.value = [i \in DOMAIN srcLines |-> RecordOf(srcLines[i])]

ToLowerChar(ch) ==
    CASE ch = "A" -> "a" [] ch = "B" -> "b" [] ch = "C" -> "c" [] OTHER -> ch
ToLowerCase(s) == [i \in DOMAIN s |-> ToLowerChar(s[i])]

\* hay.includes(needle)
Includes(hay, needle) ==
    \E i \in 0..(Len(hay) - Len(needle)) :
        SubSeq(hay, i + 1, i + Len(needle)) = needle

\* contact[field]: undefined when the record has no such property.
Get(c, f) == IF f \in DOMAIN c THEN c[f] ELSE Undefined

\* contact.emails || []
ArrayOrEmpty(c, f) == IF f \in DOMAIN c THEN c[f] ELSE <<>>

\* A mutant of matchesQuery: the phones are left out of the searched fields.
matchesQueryNoPhones(c, q) ==
    IF ~Truthy(q) THEN TRUE
    ELSE LET searchText == ToLowerCase(q)
             searchableFields ==
                 SelectSeq(<<Get(c, "name"), Get(c, "firstName"),
                             Get(c, "lastName"), Get(c, "organization"),
                             Get(c, "note")>>
                           \o ArrayOrEmpty(c, "emails"), Truthy)
         IN  \E i \in DOMAIN searchableFields :
                 Includes(ToLowerCase(searchableFields[i]), searchText)

matchesQuery(c, q) ==
    IF ~Truthy(q) THEN TRUE
    ELSE LET searchText == ToLowerCase(q)
             searchableFields ==
                 SelectSeq(<<Get(c, "name"), Get(c, "firstName"),
                             Get(c, "lastName"), Get(c, "organization"),
                             Get(c, "note")>>
                           \o ArrayOrEmpty(c, "emails")
                           \o ArrayOrEmpty(c, "phones"), Truthy)
         IN  \E i \in DOMAIN searchableFields :
                 Includes(ToLowerCase(searchableFields[i]), searchText)

\* A mutant of matchesField: the record's value is compared as it is.
matchesFieldCaseSensitive(c, f, v, exact) ==
    IF ~Truthy(v) THEN TRUE
    ELSE LET contactValue == Get(c, f)
         IN  IF ~Truthy(contactValue) THEN FALSE
             ELSE LET searchValue == ToLowerCase(v)
                  IN  IF exact THEN contactValue = searchValue
                      ELSE Includes(contactValue, searchValue)

matchesField(c, f, v, exact) ==
    IF ~Truthy(v) THEN TRUE
    ELSE LET contactValue == Get(c, f)
         IN  IF ~Truthy(contactValue) THEN FALSE
             ELSE LET searchValue == ToLowerCase(v)
                      contactValueLower == ToLowerCase(contactValue)
                  IN  IF exact THEN contactValueLower = searchValue
                      ELSE Includes(contactValueLower, searchValue)

\* The records SpecMatch draws: parsed records (every property present,
\* possibly empty) and records lacking name and emails.
ParsedContacts ==
    { [name |-> n, firstName |-> f, lastName |-> <<>>, organization |-> o,
       note |-> t, birthday |-> <<>>, emails |-> e, phones |-> p] :
        n \in {<<>>, <<"A", "b">>}, f \in {<<>>, <<"a">>},
        o \in {<<>>, <<"b", "C">>}, t \in {<<>>, <<"c">>},
        e \in {<<>>, <<<<"a", "B">>>>, <<<<"c">>, <<"B", "c">>>>},
        p \in {<<>>, <<<<"b">>>>} }
PartialContacts ==
    { [firstName |-> f, lastName |-> <<>>, organization |-> o, note |-> <<>>,
       phones |-> p] :
        f \in {<<>>, <<"a">>}, o \in {<<>>, <<"b", "C">>},
        p \in {<<>>, <<<<"b">>>>} }
Contacts == ParsedContacts \cup PartialContacts

\* The search texts: absent, empty, and short texts in either case.
SearchTexts ==
    {Undefined, <<>>, <<"a">>, <<"B">>, <<"a", "B">>, <<"A", "b">>,
     <<"b", "c">>, <<"C">>, <<"a", "b", "c">>}

TextFields ==
    {"name", "firstName", "lastName", "organization", "note", "birthday"}

InitMatch ==
    /\ contact \in Contacts
    /\ \/ /\ query \in SearchTexts
          /\ field = "name" /\ value = <<>> /\ exactMatch = FALSE
       \/ /\ query = <<>>
          /\ field \in TextFields /\ value \in SearchTexts
          /\ exactMatch \in BOOLEAN
    /\ matched = NotYet
    /\ ServerIdle /\ ParseIdle /\ BirthdayIdle /\ ReplyIdle
    /\ ExecIdle /\ BuildIdle

\* this.matchesQuery(contact, query)
EvalMatchesQuery ==
    /\ ~matched.done
    /\ matched' = [done |-> TRUE, value |-> matchesQuery(contact, query),
                   fn |-> "matchesQuery"]
    /\ UNCHANGED <<contact, query, field, value, exactMatch>>
    /\ UNCHANGED <<serverVars, parseVars, birthdayVars, replyVars,
                   execVars,
                   buildVars>>

\* this.matchesField(contact, field, value, exactMatch)
EvalMatchesField ==
    /\ ~matched.done
    /\ matched' = [done |-> TRUE,
                   value |-> matchesField(contact, field, value, exactMatch),
                   fn |-> "matchesField"]
    /\ UNCHANGED <<contact, query, field, value, exactMatch>>
    /\ UNCHANGED <<serverVars, parseVars, birthdayVars, replyVars,
                   execVars,
                   buildVars>>

NextMatch == EvalMatchesQuery \/ EvalMatchesField

SpecMatch == InitMatch /\ [][NextMatch]_vars

(***************************************************************************)
(* Claims about the match predicates, checked under SpecMatch.             *)
(***************************************************************************)
SameLetter(x, y) == ToLowerChar(x) = ToLowerChar(y)

\* q occurs in s at some offset, letter case ignored.
OccursIn(q, s) ==
    \E k \in 0..(Len(s) - Len(q)) :
        \A j \in 1..Len(q) : SameLetter(s[k + j], q[j])

\* q and s are the same text, letter case ignored.
SameText(q, s) ==
    Len(q) = Len(s) /\ \A j \in 1..Len(q) : SameLetter(s[j], q[j])

\* The non-empty searchable values of a record.
SearchableValues(c) ==
    ({Get(c, f) : f \in {"name", "firstName", "lastName", "organization",
                         "note"}}
       \cup Range(ArrayOrEmpty(c, "emails"))
       \cup Range(ArrayOrEmpty(c, "phones")))
    \ {Undefined, <<>>}

\* C8: matchesQuery is true for every record when the query is empty or
\* absent; otherwise it is true exactly when the query occurs, letter case
\* ignored, in a non-empty value among name, firstName, lastName,
\* organization, note, the emails and the phones.
C8_MatchesQuery ==
    (matched.done /\ matched.fn = "matchesQuery") =>
        matched.value =
            IF query \in {Undefined, <<>>} THEN TRUE
            ELSE \E s \in SearchableValues(contact) : OccursIn(query, s)

\* A query in another letter case found in a phone number only.
C8_Witness ==
    /\ matched.done /\ matched.fn = "matchesQuery" /\ matched.value
    /\ query = <<"B">>
    /\ SearchableValues(contact) = {<<"b">>, <<"a">>}
    /\ Get(contact, "phones") = <<<<"b">>>>

\* C9: matchesField is true if value is empty; false if the record's field
\* is empty or absent; otherwise, letter case ignored, true exactly when the
\* field equals value (exact) or contains value (not exact).
C9_MatchesField ==
    (matched.done /\ matched.fn = "matchesField") =>
        matched.value =
            IF value \in {Undefined, <<>>} THEN TRUE
            ELSE IF Get(contact, field) \in {Undefined, <<>>} THEN FALSE
            ELSE IF exactMatch THEN SameText(value, Get(contact, field))
            ELSE OccursIn(value, Get(contact, field))

\* An exact match across letter cases.
C9_Witness ==
    /\ matched.done /\ matched.fn = "matchesField" /\ matched.value
    /\ exactMatch /\ field = "organization"
    /\ value = <<"b", "c">> /\ Get(contact, field) = <<"b", "C">>

(***************************************************************************)
(* ContactIndex: isUpcomingBirthday.  Time is counted in ticks, a whole    *)
(* number of them to the day, from the start of the current year; a day    *)
(* is taken to last 24 hours.                                              *)
(***************************************************************************)
\* Ticks in a day: the resolution of the clock.
TicksPerDay == 2

\* Days before the first of each month in a common year.
DaysBefore == <<0, 31, 59, 90, 120, 151, 181, 212, 243, 273, 304, 334>>

DaysInYear(leap) == IF leap THEN 366 ELSE 365

\* new Date(year, month, day): the day of the year, 1-based; a 29 February
\* of a common year comes out as 1 March.
DayOfYear(month, day, leap) ==
    DaysBefore[month] + day + (IF leap /\ month > 2 THEN 1 ELSE 0)

\* A mutant of CeilDiv: the day count is rounded down.
FloorDiv(a, b) == a \div b

\* Math.ceil(a / b) for a >= 0
CeilDiv(a, b) == (a + b - 1) \div b

\* new Date(birthday) gave a valid date.
Parsable(b) == b.kind = "date"

\* !birthday || birthday === ""
BirthdayMissing(b) == b.kind \in {"undefined", "empty"}

\* The body of the try block, for a parsable birthday.
DaysUntilBirthday(b, t) ==
    LET doy == DayOfYear(b.month, b.day, t.leap)
        today == (DayOfYear(t.month, t.day, t.leap) - 1) * TicksPerDay + t.tick
        thisYearBirthday == (doy - 1) * TicksPerDay
        \* setFullYear(currentYear + 1) keeps the month and day that
        \* new Date(currentYear, month, day) settled on.
        feb29 == t.leap /\ doy = 60
        doyNext == IF feb29 THEN 60
                   ELSE IF t.leap /\ doy > 60 THEN doy - 1
                   ELSE IF t.leapNext /\ doy >= 60 THEN doy + 1
                   ELSE doy
        nextYearBirthday == (DaysInYear(t.leap) + doyNext - 1) * TicksPerDay
        timeDiff == IF thisYearBirthday < today
                    THEN nextYearBirthday - today
                    ELSE thisYearBirthday - today
    IN  CeilDiv(timeDiff, TicksPerDay)

\* A mutant of isUpcomingBirthday: a window of 0 days is not turned away.
isUpcomingBirthdayAnyWindow(b, d, t) ==
    IF BirthdayMissing(b) THEN FALSE
    ELSE IF ~Parsable(b) THEN FALSE
    ELSE DaysUntilBirthday(b, t) >= 0 /\ DaysUntilBirthday(b, t) <= d

\* isUpcomingBirthday(birthday, days) evaluated at time t.
isUpcomingBirthday(b, d, t) ==
    IF BirthdayMissing(b) \/ d = 0 THEN FALSE
    ELSE IF ~Parsable(b) THEN FALSE
    ELSE DaysUntilBirthday(b, t) >= 0 /\ DaysUntilBirthday(b, t) <= d

\* The calendar days SpecBirthday draws, around the ends of the year and
\* of February.
MonthDays ==
    {<<1, 1>>, <<1, 2>>, <<2, 28>>, <<2, 29>>, <<3, 1>>, <<6, 15>>,
     <<12, 30>>, <<12, 31>>}

\* The widest window drawn.
MaxDays == 3

InitBirthday ==
    /\ birthday \in
         {[kind |-> "undefined"], [kind |-> "empty"], [kind |-> "invalid"]}
         \cup {[kind |-> "date", month |-> md[1], day |-> md[2]] :
                 md \in MonthDays}
    /\ days \in 0..MaxDays
    /\ now \in {[month |-> md[1], day |-> md[2], tick |-> k, leap |-> l[1],
                 leapNext |-> l[2]] :
                  md \in MonthDays, k \in 0..(TicksPerDay - 1),
                  l \in {<<FALSE, FALSE>>, <<TRUE, FALSE>>, <<FALSE, TRUE>>}}
    /\ (now.month = 2 /\ now.day = 29) => now.leap
    /\ upcoming = NotYet
    /\ ServerIdle /\ ParseIdle /\ MatchIdle /\ ReplyIdle
    /\ ExecIdle /\ BuildIdle

\* this.isUpcomingBirthday(birthday, days), with new Date() giving `now`.
EvalIsUpcomingBirthday ==
    /\ ~upcoming.done
    /\ upcoming' = Done(isUpcomingBirthday(birthday, days, now))
    /\ UNCHANGED <<birthday, days, now>>
    /\ UNCHANGED <<serverVars, parseVars, matchVars, replyVars,
                   execVars,
                   buildVars>>

NextBirthday == EvalIsUpcomingBirthday

SpecBirthday == InitBirthday /\ [][NextBirthday]_vars

(***************************************************************************)
(* Claims about isUpcomingBirthday, checked under SpecBirthday.            *)
(***************************************************************************)
BirthdayIsToday ==
    Parsable(birthday) /\ birthday.month = now.month /\ birthday.day = now.day

\* C10 (as claimed): a birthday whose month and day are today's gives true
\* when windowDays is 0.
C10_TodayWithZeroWindowIsTrue ==
    (upcoming.done /\ days = 0 /\ BirthdayIsToday) => upcoming.value = TRUE

\* C10 (amended): a birthday whose month and day are today's gives false
\* when windowDays is 0, at midnight as at any later time of the day.
C10_TodayWithZeroWindowIsFalse ==
    (upcoming.done /\ days = 0 /\ BirthdayIsToday) => upcoming.value = FALSE

\* Today's birthday asked about at midnight sharp with a window of 0 days.
C10_Witness ==
    /\ upcoming.done /\ days = 0 /\ BirthdayIsToday /\ now.tick = 0
    /\ upcoming.value = FALSE

\* The calendar date a month and day fall on in a year: 29 February of a
\* common year is 1 March.
C11_DateIn(month, day, leap) ==
    IF month = 2 /\ day = 29 /\ ~leap THEN <<3, 1>> ELSE <<month, day>>

\* Ticks from the start of the current year to now.
C11_Now == (DayOfYear(now.month, now.day, now.leap) - 1) * TicksPerDay + now.tick

\* The birthday's month and day projected onto the current year.
C11_Projected == C11_DateIn(birthday.month, birthday.day, now.leap)

C11_ThisYear ==
    (DayOfYear(C11_Projected[1], C11_Projected[2], now.leap) - 1) * TicksPerDay

\* The projected date moved to the next year.
C11_Rolled ==
    LET r == C11_DateIn(C11_Projected[1], C11_Projected[2], now.leapNext)
    IN  (DaysInYear(now.leap) + DayOfYear(r[1], r[2], now.leapNext) - 1)
          * TicksPerDay

\* Ticks from now to the projected date, rolled forward when it is past.
C11_Diff ==
    IF C11_ThisYear < C11_Now THEN C11_Rolled - C11_Now
    ELSE C11_ThisYear - C11_Now

\* C11: for a parsable birthday and a non-zero window the answer is true
\* exactly when the number of days from now to the birthday's next
\* occurrence (projected onto this year, rolled to the next when already
\* past), rounded up to whole days, lies in 0..days; for absent or
\* unparsable text the answer is false.  The answer is always a Boolean:
\* nothing is thrown.
C11_UpcomingWindow ==
    upcoming.done =>
      /\ upcoming.value \in BOOLEAN
      /\ (Parsable(birthday) /\ days # 0) =>
            (upcoming.value =
               \E n \in 0..days :
                   /\ (n - 1) * TicksPerDay < C11_Diff
                   /\ C11_Diff <= n * TicksPerDay)
      /\ ~Parsable(birthday) => upcoming.value = FALSE

\* A birthday already past this year whose next occurrence is more than
\* `days` days and at most one day more away, asked about during the day.
C11_Witness ==
    /\ upcoming.done /\ Parsable(birthday) /\ days # 0 /\ now.tick > 0
    /\ C11_ThisYear < C11_Now
    /\ days * TicksPerDay < C11_Diff
    /\ C11_Diff <= (days + 1) * TicksPerDay
    /\ upcoming.value = FALSE

(***************************************************************************)
(* The listing tools: what getAllContacts, getContactNames, searchContacts *)
(* and getContactByName make of the address book once their script has     *)
(* run.  The checks and the failure envelope are in Spec.                  *)
(***************************************************************************)
COMMA == ","
QUOTE == "\""
BACKSLASH == "\\"

\* The JavaScript value null.
Null == <<"null">>

\* args.limit || d
LimitOr(l, d) == IF l.given /\ l.n # 0 THEN l.n ELSE d

\* list.slice(0, end): a negative end counts back from the end of the list.
Slice(list, end) ==
    LET k == IF end < 0 THEN Len(list) + end ELSE end
    IN  SubSeq(list, 1, IF k < 0 THEN 0
                        ELSE IF k > Len(list) THEN Len(list) ELSE k)

\* text.split(/[\r\n]+/)
RECURSIVE SplitLines(_)
SplitLines(s) ==
    IF \A i \in DOMAIN s : s[i] \notin {CR, LF} THEN <<s>>
    ELSE LET k == CHOOSE i \in DOMAIN s :
                      s[i] \in {CR, LF} /\ \A j \in 1..(i - 1) : s[j] \notin {CR, LF}
             e == CHOOSE i \in k..Len(s) :
                      /\ \A j \in k..i : s[j] \in {CR, LF}
                      /\ (i = Len(s) \/ s[i + 1] \notin {CR, LF})
         IN  <<SubSeq(s, 1, k - 1)>> \o SplitLines(SubSeq(s, e + 1, Len(s)))

\* value.replace(/"/g, '\\"')
EscapeDoubleQuotes(s) ==
    Flatten([i \in DOMAIN s |->
               IF s[i] = QUOTE THEN <<BACKSLASH, QUOTE>> ELSE <<s[i]>>])

\* The scripts of the listing tools: the query expression and the text
\* placed between the quotes of its string literal.
EveryNameScript == [predicate |-> "every", literal |-> <<>>]
ContainsScript(text) ==
    [predicate |-> "contains", literal |-> EscapeDoubleQuotes(text)]
EqualsScript(text) ==
    [predicate |-> "equals", literal |-> EscapeDoubleQuotes(text)]
FirstThreeScript == [predicate |-> "first three", literal |-> <<>>]

\* formatContact(contact)
formatContact(c) ==
    [name |-> IF Truthy(Get(c, "name")) THEN c.name ELSE <<"Unknown">>,
     firstName |-> OrEmpty(Get(c, "firstName")),
     lastName |-> OrEmpty(Get(c, "lastName")),
     emails |-> ArrayOrEmpty(c, "emails"),
     phones |-> ArrayOrEmpty(c, "phones"),
     organization |->
         IF Truthy(Get(c, "organization")) THEN c.organization ELSE Null,
     notes |-> IF Truthy(Get(c, "note")) THEN c.note ELSE Null,
     birthday |-> IF Truthy(Get(c, "birthday")) THEN c.birthday ELSE Null]

\* The text a string literal of a script stands for: \" is a quote and \\ a
\* backslash.
RECURSIVE LiteralText(_)
LiteralText(s) ==
    IF s = <<>> THEN <<>>
    ELSE IF Head(s) = BACKSLASH /\ Len(s) >= 2
    THEN <<s[2]>> \o LiteralText(SubSeq(s, 3, Len(s)))
    ELSE <<Head(s)>> \o LiteralText(Tail(s))

NamesOf(b) == [i \in DOMAIN b |-> b[i].name]

\* The names the Contacts application selects for a query expression; it
\* compares text without regard to case.
Selected(script, b) ==
    LET text == ToLowerCase(LiteralText(script.literal))
        Hit(n) == CASE script.predicate = "contains" ->
                         Includes(ToLowerCase(n), text)
                    [] script.predicate = "equals" -> ToLowerCase(n) = text
                    [] OTHER -> TRUE
    IN  SelectSeq(NamesOf(b), Hit)

\* How the interpreter may print a list of names: osascript puts ", "
\* between the items; the tools also provide for one name to a line.
ListSeparators == {<<COMMA, SPACE>>, <<CR>>, <<LF>>}

\* executeAppleScript(script) against the address book b, a list result
\* printed with d between its items: the trimmed output, or the failure
\* when the script asks for a person the book does not have.
RunScript(script, b, d) ==
    IF script.predicate = "first three"
    THEN IF Len(b) >= 3
         THEN [ok |-> TRUE,
               value |-> Trim(Join(SubSeq(NamesOf(b), 1, 3), <<CR>>))]
         ELSE [ok |-> FALSE, value |-> <<ExecFailedPrefix, "1", ")">>]
    ELSE [ok |-> TRUE, value |-> Trim(Join(Selected(script, b), d))]

\* What a listing tool resolves to.
Listing(kind, entries, script, total, note) ==
    [kind |-> kind, entries |-> entries, script |-> script, total |-> total,
     note |-> note]

\* The names getContactNames announces when no limit is given.
DefaultNamesLimit == 5

\* The most names searchContacts lists when no query is given.
SearchSlice == 50

\* The limit of getAllContacts when none is given.
DefaultAllLimit == 100

\* result.includes(',') ? result.split(',').map(name => name.trim())
\*     .filter(name => name) : result.split(/[\r\n]+/).filter(name =>
\*     name.trim())
SplitNames(text) ==
    IF COMMA \in Range(text)
    THEN LET pieces == Split(text, COMMA)
         IN  SelectSeq([i \in DOMAIN pieces |-> Trim(pieces[i])], Truthy)
    ELSE SelectSeq(SplitLines(text), TrimTruthy)

\* getContactNames(args), after the script has run.
getContactNames(a, b, d) ==
    LET limit == LimitOr(a.limit, DefaultNamesLimit)
        out == RunScript(FirstThreeScript, b, d)
        names == SelectSeq(SplitLines(out.value), TrimTruthy)
    IN  IF out.ok
        THEN Listing("names", names, FirstThreeScript, Len(names), FALSE)
        ELSE Listing("failed", <<>>, FirstThreeScript, 0, FALSE)

\* searchContacts(args), after checkPermissions and the script have run.
searchContacts(a, b, d) ==
    IF ~Truthy(a.query)
    THEN LET out == RunScript(EveryNameScript, b, d)
             names == Slice(SplitNames(out.value), SearchSlice)
         IN  Listing("first", names, EveryNameScript, Len(names), FALSE)
    ELSE LET searchScript == ContainsScript(a.query)
             out == RunScript(searchScript, b, d)
             names == SplitNames(out.value)
         IN  IF Len(names) = 0
             THEN Listing("none found", <<>>, searchScript, 0, FALSE)
             ELSE Listing("found", names, searchScript, Len(names), FALSE)

\* getContactByName(args), after checkPermissions and the script have run.
getContactByName(a, b, d) ==
    LET searchScript == IF a.exact_match THEN EqualsScript(a.name)
                        ELSE ContainsScript(a.name)
        out == RunScript(searchScript, b, d)
        names == SelectSeq(SplitLines(out.value), TrimTruthy)
    IN  IF Len(names) = 0
        THEN Listing("none found", <<>>, searchScript, 0, FALSE)
        ELSE Listing("found", names, searchScript, Len(names), FALSE)

\* getAllContacts(args), with contactsList what the fetch resolved to.
getAllContacts(a, contactsList) ==
    LET limit == LimitOr(a.limit, DefaultAllLimit)
        limited == Slice(contactsList, limit)
        results == [i \in DOMAIN limited |-> formatContact(limited[i])]
    IN  Listing("retrieved", results,
                [predicate |-> IF a.unlimited THEN "fetch unlimited"
                               ELSE "fetch capped", literal |-> <<>>],
                Len(contactsList), Len(contactsList) > limit)

\* A contact as the parser hands it on.
Person(n, o, e, p, bd) ==
    [name |-> n, firstName |-> <<>>, lastName |-> <<>>, organization |-> o,
     note |-> <<>>, birthday |-> bd, emails |-> e, phones |-> p]

\* The people SpecReply fills the address book from: names that share
\* letters in either case, one of them with a comma in it.
People ==
    { Person(<<"A", "b">>, <<"a", "C">>, <<<<"a", "B">>>>, <<<<"b">>>>,
             <<"d">>),
      Person(<<"a", "b", "c">>, <<>>, <<>>, <<>>, <<>>),
      Person(<<"B", COMMA, SPACE, "c">>, <<"b">>, <<<<"c">>>>, <<>>, <<>>),
      Person(<<"c">>, <<>>, <<>>, <<<<"a">>>>, <<"d">>) }

\* The most contacts in the address book.
MaxBook == 3

Books ==
    {b \in SeqsUpTo(People, MaxBook) :
        \A i, j \in DOMAIN b : i # j => b[i] # b[j]}

Limits == {NoLimit} \cup {Limit(n) : n \in (0 - 1)..(MaxBook + 1)}

\* The filter options of search_contacts, one at a time.
Options ==
    {<<"none", Undefined>>, <<"name", <<"c">>>>, <<"email", <<"b">>>>,
     <<"organization", <<"c">>>>, <<"phone", <<"a">>>>,
     <<"has_birthday", <<"true">>>>}

Requests ==
    {[NoRequest EXCEPT !.tool = "get_all_contacts", !.limit = l,
                       !.unlimited = u] : l \in Limits, u \in BOOLEAN}
    \cup {[NoRequest EXCEPT !.tool = "get_contact_names", !.limit = l] :
            l \in {NoLimit} \cup {Limit(n) : n \in 1..MaxBook}}
    \cup {[NoRequest EXCEPT !.tool = "search_contacts", !.query = q,
                            !.limit = l, !.option = o[1],
                            !.optionValue = o[2]] :
            q \in {Undefined, <<"b">>, <<"A">>, <<"d">>},
            l \in {NoLimit, Limit(1), Limit(2)}, o \in Options}
    \cup {[NoRequest EXCEPT !.tool = "get_contact_by_name", !.name = n,
                            !.exact_match = x] :
            n \in {<<"b">>, <<"a", "B">>, <<"d">>}, x \in BOOLEAN}

InitReply ==
    /\ book \in Books
    /\ request \in Requests
    /\ listSep \in ListSeparators
    /\ fetched = Done(book)
    /\ reply = NotYet
    /\ ServerIdle /\ ParseIdle /\ MatchIdle /\ BirthdayIdle
    /\ ExecIdle /\ BuildIdle

GetAllContacts ==
    /\ request.tool = "get_all_contacts" /\ fetched.done /\ ~reply.done
    /\ reply' = Done(getAllContacts(request, fetched.value))
    /\ UNCHANGED <<book, request, listSep, fetched>>
    /\ UNCHANGED <<serverVars, parseVars, matchVars, birthdayVars, execVars,
                   buildVars>>

GetContactNames ==
    /\ request.tool = "get_contact_names" /\ ~reply.done
    /\ reply' = Done(getContactNames(request, book, listSep))
    /\ UNCHANGED <<book, request, listSep, fetched>>
    /\ UNCHANGED <<serverVars, parseVars, matchVars, birthdayVars, execVars,
                   buildVars>>

SearchContacts ==
    /\ request.tool = "search_contacts" /\ ~reply.done
    /\ reply' = Done(searchContacts(request, book, listSep))
    /\ UNCHANGED <<book, request, listSep, fetched>>
    /\ UNCHANGED <<serverVars, parseVars, matchVars, birthdayVars, execVars,
                   buildVars>>

GetContactByName ==
    /\ request.tool = "get_contact_by_name" /\ ~reply.done
    /\ reply' = Done(getContactByName(request, book, listSep))
    /\ UNCHANGED <<book, request, listSep, fetched>>
    /\ UNCHANGED <<serverVars, parseVars, matchVars, birthdayVars, execVars,
                   buildVars>>

NextReply ==
    \/ GetAllContacts
    \/ GetContactNames
    \/ SearchContacts
    \/ GetContactByName

SpecReply == InitReply /\ [][NextReply]_vars

(***************************************************************************)
(* Claims about the listing tools, checked under SpecReply.                *)
(***************************************************************************)
\* The limit a call of get_all_contacts asks for.
C12_Limit ==
    IF request.limit.given THEN request.limit.n ELSE DefaultAllLimit

\* C12: get_all_contacts returns the first `limit` fetched records in
\* fetch order (100 when no limit is given), never more than `limit` of
\* them, and notes "(limited from N total)" exactly when more than `limit`
\* were fetched, whatever limit is supplied.
C12_TruncatedToLimit ==
    (reply.done /\ request.tool = "get_all_contacts") =>
      LET kept == IF C12_Limit < Len(book) THEN C12_Limit ELSE Len(book)
      IN  /\ Len(reply.value.entries) <= C12_Limit
          /\ reply.value.entries = [i \in 1..kept |-> formatContact(book[i])]
          /\ reply.value.note <=> (Len(book) > C12_Limit)

\* The number of names a call of get_contact_names asks for.
C13_Limit ==
    IF request.limit.given THEN request.limit.n ELSE DefaultNamesLimit

\* C13: get_contact_names lists the names of the first N contacts, N the
\* limit argument (5 when absent): with at least N contacts in the address
\* book the list has exactly N entries, the first N names in order.
C13_FirstNNames ==
    (reply.done /\ request.tool = "get_contact_names"
       /\ Len(book) >= C13_Limit) =>
      /\ reply.value.kind = "names"
      /\ reply.value.entries = SubSeq(NamesOf(book), 1, C13_Limit)

\* The most names a call of search_contacts asks for.
C14_Limit == IF request.limit.given THEN request.limit.n ELSE SearchSlice

\* C14: search_contacts never returns more than `limit` display names (50
\* when no limit is given), with a query or without one, however many
\* contacts match.
C14_AtMostLimitNames ==
    (reply.done /\ request.tool = "search_contacts") =>
      Len(reply.value.entries) <= C14_Limit

\* The contact p satisfies the filter option of the request.
C15_Satisfies(p) ==
    LET v == ToLowerCase(request.optionValue)
    IN  CASE request.option = "name" -> Includes(ToLowerCase(p.name), v)
          [] request.option = "organization" ->
                Includes(ToLowerCase(p.organization), v)
          [] request.option = "email" ->
                \E i \in DOMAIN p.emails : Includes(ToLowerCase(p.emails[i]), v)
          [] request.option = "phone" ->
                \E i \in DOMAIN p.phones :
                    Includes(p.phones[i], request.optionValue)
          [] request.option = "has_birthday" -> p.birthday # <<>>
          [] OTHER -> TRUE

\* C15: when search_contacts is called with a name, email, organization,
\* phone or has_birthday option, every contact whose display name is in
\* the result satisfies the option, with a query or without one.
C15_ResultSatisfiesOption ==
    (reply.done /\ request.tool = "search_contacts") =>
      \A i \in DOMAIN book :
          book[i].name \in Range(reply.value.entries) =>
              C15_Satisfies(book[i])

\* The display names the query of the reply selects from the address book.
C16_Matching == Selected(reply.value.script, book)

\* C16: get_contact_by_name embeds the name in a query whose predicate is
\* name equality when exact_match is true and name containment otherwise;
\* it answers "no contacts found" exactly when the script's output has no
\* non-blank name, and otherwise lists one entry per matching display
\* name.
C16_OneEntryPerMatch ==
    (reply.done /\ request.tool = "get_contact_by_name") =>
      /\ reply.value.script.predicate =
           (IF request.exact_match THEN "equals" ELSE "contains")
      /\ LiteralText(reply.value.script.literal) = request.name
      /\ (reply.value.kind = "none found") <=>
           (\A i \in DOMAIN C16_Matching : ~TrimTruthy(C16_Matching[i]))
      /\ reply.value.kind # "none found" =>
           reply.value.entries = C16_Matching

(***************************************************************************)
(* executeAppleScript: the command line handed to the shell, the timeout   *)
(* and the outcome.  A script is a sequence of characters and of fragments *)
(* of ordinary characters.                                                 *)
(***************************************************************************)
SQUOTE == "'"

\* script.includes('repeat with aPerson in people')
Marker == <<"repeat with aPerson in", SPACE, "people">>

\* The timeouts of execSync, in milliseconds.
LongTimeout == 120000
ShortTimeout == 30000

\* A mutant of TimeoutFor: every script gets the short timeout.
TimeoutAlwaysShort(s) == ShortTimeout

\* const timeout = script.includes(...) ? 120000 : 30000
TimeoutFor(s) == IF Includes(s, Marker) THEN LongTimeout ELSE ShortTimeout

\* A mutant of EscapeSingleQuotes: a quote is escaped with a backslash only.
EscapeWithBackslash(s) ==
    Flatten([i \in DOMAIN s |->
               IF s[i] = SQUOTE THEN <<BACKSLASH, SQUOTE>> ELSE <<s[i]>>])

\* script.replace(/'/g, "'\\''")
EscapeSingleQuotes(s) ==
    Flatten([i \in DOMAIN s |->
               IF s[i] = SQUOTE THEN <<SQUOTE, BACKSLASH, SQUOTE, SQUOTE>>
               ELSE <<s[i]>>])

\* `osascript -e '${...}' 2>/dev/null`
CommandLine(s) ==
    <<"osascript", SPACE, "-e", SPACE, SQUOTE>> \o EscapeSingleQuotes(s)
      \o <<SQUOTE, SPACE, "2>/dev/null">>

\* The shell reading a command line, one character at a time: the words
\* of the first command, its redirections, and the text after a ; that
\* ends it.  Inside single quotes every character stands for itself; a
\* backslash outside them makes the next character stand for itself.
ShStart ==
    [words |-> <<>>, cur |-> <<>>, inWord |-> FALSE, mode |-> "plain",
     esc |-> FALSE, ended |-> FALSE, redirects |-> <<>>, rest |-> <<>>]

ShCloseWord(st) ==
    IF st.inWord
    THEN [st EXCEPT !.words = Append(@, st.cur), !.cur = <<>>,
                    !.inWord = FALSE]
    ELSE st

ShStep(st, ch) ==
    IF st.ended THEN [st EXCEPT !.rest = Append(@, ch)]
    ELSE IF st.mode = "single"
    THEN IF ch = SQUOTE THEN [st EXCEPT !.mode = "plain"]
         ELSE [st EXCEPT !.cur = Append(@, ch)]
    ELSE IF st.esc
    THEN [st EXCEPT !.cur = Append(@, ch), !.esc = FALSE]
    ELSE CASE ch = BACKSLASH -> [st EXCEPT !.esc = TRUE, !.inWord = TRUE]
           [] ch = SQUOTE -> [st EXCEPT !.mode = "single", !.inWord = TRUE]
           [] ch = SPACE -> ShCloseWord(st)
           [] ch = SEMI -> [ShCloseWord(st) EXCEPT !.ended = TRUE]
           [] ch = "2>/dev/null" ->
                [ShCloseWord(st) EXCEPT !.redirects = Append(@, ch)]
           [] OTHER -> [st EXCEPT !.cur = Append(@, ch), !.inWord = TRUE]

RECURSIVE ShFold(_, _)
ShFold(st, s) == IF s = <<>> THEN st ELSE ShFold(ShStep(st, Head(s)), Tail(s))

ShellParse(cmd) ==
    LET st == ShFold(ShStart, cmd)
    IN  [argv |-> ShCloseWord(st).words, redirects |-> st.redirects,
         rest |-> st.rest,
         unterminated |-> (st.mode = "single" \/ st.esc)]

\* execSync(command, {timeout}): the shell runs the command; a process
\* that needs longer than the timeout is killed and has no exit status.
execSync(cmd, timeout, dur, code) ==
    [received |-> ShellParse(cmd),
     status |-> IF dur > timeout THEN "null" ELSE ToString(code),
     stdout |-> <<SPACE, "output", LF>>]

\* executeAppleScript(script), the interpreter needing dur milliseconds
\* and exiting with code: what it returns or throws, with the timeout it
\* set, what the interpreter received and the processes it started.
executeAppleScriptOnce(s, dur, code) ==
    LET r == execSync(CommandLine(s), TimeoutFor(s), dur, code)
    IN  [ok |-> r.status = "0",
         value |-> IF r.status = "0" THEN Trim(r.stdout)
                   ELSE <<ExecFailedPrefix, r.status, ")">>,
         timeout |-> TimeoutFor(s), received |-> r.received, spawned |-> 1]

\* The characters and fragments scripts are drawn from.
ScriptTokens ==
    {SQUOTE, BACKSLASH, SEMI, SPACE, "a", "repeat with aPerson in", "people"}

\* The longest script drawn.
MaxScript == 3

\* Running times on either side of both timeouts, in milliseconds.
Durations == {1000, 29000, 31000, 119000, 121000}

ExitCodes == {0, 1}

InitExec ==
    /\ payload \in SeqsUpTo(ScriptTokens, MaxScript)
    /\ duration \in Durations
    /\ exitCode \in ExitCodes
    /\ execResult = NotYet
    /\ ServerIdle /\ ParseIdle /\ MatchIdle /\ BirthdayIdle
    /\ ReplyIdle /\ BuildIdle

ExecuteAppleScript ==
    /\ ~execResult.done
    /\ execResult' = Done(executeAppleScriptOnce(payload, duration, exitCode))
    /\ UNCHANGED <<payload, duration, exitCode>>
    /\ UNCHANGED <<serverVars, parseVars, matchVars, birthdayVars, replyVars,
                   buildVars>>

NextExec == ExecuteAppleScript

SpecExec == InitExec /\ [][NextExec]_vars

(***************************************************************************)
(* Claims about executeAppleScript, checked under SpecExec.                *)
(***************************************************************************)
\* The script text has the words of the full-corpus loop in it.
C17_HasMarker ==
    \E i \in 1..(Len(payload) - 2) :
        /\ payload[i] = "repeat with aPerson in"
        /\ payload[i + 1] = SPACE
        /\ payload[i + 2] = "people"

\* C17: the interpreter runs with a timeout of 120 seconds exactly when
\* the script text contains 'repeat with aPerson in people' and of 30
\* seconds otherwise; a run longer than the timeout is an execution
\* failure; one process is started and the call ends in one outcome, a
\* returned output or a thrown failure, with no retry.
C17_TimeoutAndOneOutcome ==
    execResult.done =>
      /\ execResult.value.timeout = (IF C17_HasMarker THEN 120000 ELSE 30000)
      /\ duration > execResult.value.timeout =>
           /\ ~execResult.value.ok
           /\ execResult.value.value[1] = ExecFailedPrefix
      /\ execResult.value.ok <=>
           (duration <= execResult.value.timeout /\ exitCode = 0)
      /\ execResult.value.spawned = 1

\* A full-corpus script whose run takes longer than 30 seconds and less
\* than 120 comes back with its output.
C17_Witness ==
    /\ execResult.done /\ C17_HasMarker
    /\ duration > 30000 /\ duration < 120000 /\ exitCode = 0
    /\ execResult.value.ok

\* The single quotes in the script.
C18_Quotes == {i \in DOMAIN payload : payload[i] = SQUOTE}

\* C18: each single quote of the script is replaced by the four
\* characters '\'' before the script is put between single quotes on the
\* command line, so that the shell hands the interpreter exactly the
\* script as its one argument after -e: no character of the script ends
\* the argument, the command or the quoting.
C18_ShellRoundTrip ==
    execResult.done =>
      /\ Len(EscapeSingleQuotes(payload)) =
           Len(payload) + 3 * Cardinality(C18_Quotes)
      /\ execResult.value.received =
           [argv |-> <<<<"osascript">>, <<"-e">>, payload>>,
            redirects |-> <<"2>/dev/null">>, rest |-> <<>>,
            unterminated |-> FALSE]

\* A script with a single quote, a backslash and a semicolon in it has
\* been run.
C18_Witness ==
    /\ execResult.done
    /\ {SQUOTE, BACKSLASH, SEMI} \subseteq Range(payload)
    /\ execResult.value.received.argv[3] = payload

(***************************************************************************)
(* getContactsData: the fetch script's output for an address book, trimmed *)
(* by executeAppleScript and parsed, and getAllContacts on top of it.      *)
(***************************************************************************)
\* set maxContacts to 50
MaxContacts == 50

\* A person of the address book, by the eight properties the script reads.
Contact8(n, f, l, o, t, bd, e, p) ==
    [name |-> n, firstName |-> f, lastName |-> l, organization |-> o,
     note |-> t, birthday |-> bd, emails |-> e, phones |-> p]

\* set contactRecord to personName & tab & firstName & tab & ... & phoneText,
\* the e-mails and the phones each joined with ";".
ContactRecord(p) ==
    Join(<<p.name, p.firstName, p.lastName, p.organization, p.note,
           p.birthday, Join(p.emails, <<SEMI>>), Join(p.phones, <<SEMI>>)>>,
         <<TAB>>)

\* The people the script's loop gets to: all of them, or the first
\* maxContacts (if contactCount >= maxContacts then exit repeat).
Emitted(b, unlimited) ==
    IF unlimited \/ Len(b) <= MaxContacts THEN b
    ELSE SubSeq(b, 1, MaxContacts)

\* contactList as text, with the text item delimiters set to return.
FetchOutput(b, unlimited) ==
    LET people == Emitted(b, unlimited)
    IN  Join([i \in DOMAIN people |-> ContactRecord(people[i])], <<CR>>)

\* getContactsData() and getContactsDataUnlimited(), past the permission
\* check: executeAppleScript trims the output, an empty result gives [],
\* anything else is parsed.
getContactsData(b, unlimited) ==
    LET trimmed == Trim(FetchOutput(b, unlimited))
    IN  IF ~Truthy(trimmed) THEN <<>>
        ELSE parseContactsFromDelimitedData(trimmed)

\* A note of k lines, each of them eight tab-separated fields.
ManyLines(k) ==
    Join([i \in 1..k |-> Join([j \in 1..MinFields |-> <<"x">>], <<TAB>>)],
         <<LF>>)

\* The people SpecFetch fills the address book from: complete, without a
\* name, without phones, and with nothing at all.
FetchPeople ==
    { Contact8(<<"a">>, <<"f">>, <<"l">>, <<"o">>, <<"n">>, <<"d">>,
               <<<<"e">>, <<"g">>>>, <<<<"1">>>>),
      Contact8(<<>>, <<"f">>, <<"l">>, <<"o">>, <<"n">>, <<"d">>,
               <<<<"e">>>>, <<<<"1">>>>),
      Contact8(<<"b">>, <<"f">>, <<>>, <<>>, <<>>, <<>>, <<<<"e">>>>, <<>>),
      Contact8(<<>>, <<>>, <<>>, <<>>, <<>>, <<>>, <<>>, <<>>) }

\* The address books SpecFetch draws: short ones, one of more contacts
\* than the cap, and one contact whose note has more lines than the cap.
FetchBooks ==
    SeqsUpTo(FetchPeople, MaxBook)
    \cup {[i \in 1..(MaxContacts + 1) |->
             Contact8(<<"a">>, <<"f">>, <<"l">>, <<"o">>, <<"n">>, <<"d">>,
                      <<<<"e">>>>, <<<<"1">>>>)]}
    \cup {<<Contact8(<<"c">>, <<"f">>, <<"l">>, <<"o">>,
                     ManyLines(MaxContacts + 1), <<"d">>, <<<<"e">>>>,
                     <<<<"1">>>>)>>}

FetchRequests ==
    {[NoRequest EXCEPT !.tool = "get_all_contacts", !.limit = l,
                       !.unlimited = u] :
        l \in {NoLimit, Limit(1), Limit(MaxContacts + 1)}, u \in BOOLEAN}

InitFetch ==
    /\ book \in FetchBooks
    /\ request \in FetchRequests
    /\ listSep = <<>>
    /\ fetched = NotYet
    /\ reply = NotYet
    /\ ServerIdle /\ ParseIdle /\ MatchIdle /\ BirthdayIdle
    /\ ExecIdle /\ BuildIdle

\* contactsList = args.unlimited ? await this.getContactsDataUnlimited()
\*                               : await this.getContactsData()
GetContactsData ==
    /\ request.tool = "get_all_contacts" /\ ~fetched.done
    /\ fetched' = Done(getContactsData(book, request.unlimited))
    /\ UNCHANGED <<book, request, listSep, reply>>
    /\ UNCHANGED <<serverVars, parseVars, matchVars, birthdayVars, execVars,
                   buildVars>>

NextFetch ==
    \/ GetContactsData
    \/ GetAllContacts

SpecFetch == InitFetch /\ [][NextFetch]_vars

(***************************************************************************)
(* Claims about the fetch, checked under SpecFetch.                        *)
(***************************************************************************)
\* C22: get_all_contacts runs one fetch script, the uncapped one exactly
\* when unlimited is truthy and otherwise the one capped at the first 50
\* records, so that without unlimited the result never has more than 50
\* records, whatever limit is given.
C22_CappedAtFifty ==
    reply.done =>
      /\ reply.value.script.predicate =
           (IF request.unlimited THEN "fetch unlimited" ELSE "fetch capped")
      /\ ~request.unlimited => Len(reply.value.entries) <= 50

\* A text with no delimiter of the record format in it.
C23_PlainText(t) == \A i \in DOMAIN t : t[i] \notin {TAB, LF, CR, SEMI}

\* A contact the script emits as one record of eight tab-joined fields,
\* empty or not.
C23_Plain(p) ==
    /\ \A f \in {"name", "firstName", "lastName", "organization", "note",
                 "birthday"} : C23_PlainText(p[f])
    /\ \A f \in {"emails", "phones"} : \A i \in DOMAIN p[f] :
          C23_PlainText(p[f][i]) /\ p[f][i] # <<>>

\* C23: for every list of contacts that the fetch script emits as one
\* 8-field tab-joined record per contact, with any fields empty,
\* getContactsData returns one record per emitted contact, in the same
\* order and with the same fields: none is lost between the trimming in
\* executeAppleScript and the field count in the parser.
C23_OneRecordPerContact ==
    (fetched.done /\ \A i \in DOMAIN book : C23_Plain(book[i])) =>
      fetched.value = Emitted(book, request.unlimited)

(***************************************************************************)
(* The scripts built around a user-supplied value, and how the interpreter *)
(* reads them: a string literal runs from a double quote to the next       *)
(* double quote that no backslash precedes; everything else is code.       *)
(***************************************************************************)
\* `tell application "Contacts" to return name of (every person whose name
\* contains "${searchQuery}")`, and the same with = for an exact match.
WhoseScript(comparison, text) ==
    <<"tell application ", QUOTE, "Contacts", QUOTE,
      " to return name of (every person whose name ", comparison, " ",
      QUOTE>> \o EscapeDoubleQuotes(text) \o <<QUOTE, ")">>

\* The lines of testScript around `set maxSample to ${sampleSize}`, with
\* sampleSize = args.sample_size || 5.
SampleScript(v) ==
    <<"set processedCount to 0", LF, "set maxSample to ">>
      \o (IF Truthy(v) THEN v ELSE <<"5">>)
      \o <<LF, LF, "repeat with aPerson in people">>

\* One character read: the last item is the one being read, code or a
\* string literal still open.
LexStep(st, ch) ==
    LET n == Len(st.items)
        open == st.items[n].kind = "open string"
        Add == [st EXCEPT !.items[n].text = Append(@, ch), !.esc = FALSE]
    IN  IF open /\ st.esc THEN Add
        ELSE IF open /\ ch = BACKSLASH THEN [st EXCEPT !.esc = TRUE]
        ELSE IF open /\ ch = QUOTE
        THEN [st EXCEPT !.items = Append([@ EXCEPT ![n].kind = "string"],
                                         [kind |-> "code", text |-> <<>>])]
        ELSE IF ch = QUOTE
        THEN [st EXCEPT !.items = Append(@, [kind |-> "open string",
                                             text |-> <<>>])]
        ELSE Add

RECURSIVE LexFold(_, _)
LexFold(st, s) ==
    IF s = <<>> THEN st ELSE LexFold(LexStep(st, Head(s)), Tail(s))

\* The script as the interpreter reads it: code and string literals in
\* turn, a literal left open at the end marked as such.
Lex(script) ==
    LexFold([items |-> <<[kind |-> "code", text |-> <<>>]>>, esc |-> FALSE],
            script).items

\* The longest user value drawn.
MaxValue == 3

InitBuild ==
    /\ userValue \in SeqsUpTo({QUOTE, BACKSLASH, "a", "1"}, MaxValue)
    /\ built = NotYet
    /\ ServerIdle /\ ParseIdle /\ MatchIdle /\ BirthdayIdle
    /\ ReplyIdle /\ ExecIdle

\* searchContacts builds its script around args.query.
BuildSearchScript ==
    /\ ~built.done /\ Truthy(userValue)
    /\ built' = Done([for |-> "query",
                      script |-> WhoseScript("contains", userValue)])
    /\ UNCHANGED userValue
    /\ UNCHANGED <<serverVars, parseVars, matchVars, birthdayVars, replyVars,
                   execVars>>

\* getContactByName builds its script around args.name.
BuildNameScript ==
    /\ ~built.done
    /\ \E exact \in BOOLEAN :
         built' = Done([for |-> "name",
                        script |-> WhoseScript(IF exact THEN "="
                                               ELSE "contains", userValue)])
    /\ UNCHANGED userValue
    /\ UNCHANGED <<serverVars, parseVars, matchVars, birthdayVars, replyVars,
                   execVars>>

\* testContactProcessing builds its script around args.sample_size.
BuildSampleScript ==
    /\ ~built.done
    /\ built' = Done([for |-> "sample_size",
                      script |-> SampleScript(userValue)])
    /\ UNCHANGED userValue
    /\ UNCHANGED <<serverVars, parseVars, matchVars, birthdayVars, replyVars,
                   execVars>>

NextBuild ==
    \/ BuildSearchScript
    \/ BuildNameScript
    \/ BuildSampleScript

SpecBuild == InitBuild /\ [][NextBuild]_vars

\* What the script reads as when the value v stays inside its one literal:
\* the template's code and literals around one string literal holding v,
\* or, for the sample size, one run of code holding one numeral.
C25_Digits(v) == \A i \in DOMAIN v : v[i] = "1"

C25_Expected(b, v) ==
    IF b.for = "sample_size"
    THEN IF ~Truthy(v) \/ C25_Digits(v)
         THEN <<[kind |-> "code", text |-> SampleScript(v)]>>
         ELSE <<>>
    ELSE [Lex(WhoseScript(b.script[6], <<"a">>)) EXCEPT ![4].text = v]

\* C25: whatever the user-supplied value (query, name or sample size, over
\* characters that include the double quote and the backslash), the built
\* script reads as it does for a plain value: the value is the text of its
\* one string literal (or is one numeral), and the code around it is the
\* template's.
C25_ValueStaysInLiteral ==
    built.done => Lex(built.value.script) = C25_Expected(built.value, userValue)

\* The request get_contact_by_name gets for the search that search_contacts
\* runs for its query.
C26_ByName == [request EXCEPT !.tool = "get_contact_by_name",
                              !.name = request.query, !.exact_match = FALSE]

\* C26: search_contacts with a query and get_contact_by_name with the same
\* text as name and exact_match false run the same "name contains" query
\* and, whatever the interpreter prints (names separated by commas or by
\* line breaks, or one name that holds a comma), report the same sequence
\* of display names and the same count.
C26_SameAsByName ==
    (reply.done /\ request.tool = "search_contacts" /\ Truthy(request.query))
      => LET byName == getContactByName(C26_ByName, book, listSep)
         IN  /\ reply.value.script = byName.script
             /\ reply.value.entries = byName.entries
             /\ reply.value.total = byName.total

=============================================================================
